---------------------------- MODULE Spec2Model ----------------------------
(* A model of src/bloom-filter.cpp: the BloomFilter class (constructor,    *)
(* add, contains, createHashCode) and the driver main().                   *)
(*                                                                         *)
(* C++ int is 32 bits wide here.  Signed overflow in createHashCode wraps  *)
(* (two's complement), and % truncates towards zero, so a remainder takes  *)
(* the sign of its dividend.  An access tables[i][idx] with idx outside    *)
(* [0, sizes[i]) is undefined behaviour: the model lets the build decide   *)
(* what it does (variables build, gap and mem).                            *)
EXTENDS Integers, Sequences, FiniteSets, TLC

VARIABLES
    build,       \* "checked": an out-of-bounds access aborts; "raw": it hits memory
    gap,         \* raw build: bytes the allocator leaves between two allocations
    mem,         \* raw build: what the bytes no allocation owns do
    tableSizes,  \* the constructor's argument tableSizes[] (tableCount is its length)
    status,      \* "start" | "ready" | "threw" | "aborted"
    filter,      \* the BloomFilter object: [tables, sizes, tableSize, bent]
    scribbled,   \* raw build: the bytes outside every table that add has written
    call,        \* the last call on the filter and what it did
    added,       \* the keys of the add calls that returned
    hkey,        \* createHashCode in steps: its argument key
    pos,         \* ... the number of characters the loop has processed
    hashcode,    \* ... the local hashcode
    power,       \* ... the local power
    inst,        \* two filter objects side by side
    ret,         \* ... the hash codes createHashCode returned on each of them
    race         \* an add and a contains call running side by side on one object

vars == <<build, gap, mem, tableSizes, status, filter, scribbled, call, added,
          hkey, pos, hashcode, power, inst, ret, race>>

filterVars == <<build, gap, mem, tableSizes, status, filter, scribbled, call, added>>
hashVars == <<hkey, pos, hashcode, power>>
pairVars == <<inst, ret>>
raceVars == <<race>>

-----------------------------------------------------------------------------
(* 32-bit int arithmetic.  TLC's integers are themselves 32 bits wide and  *)
(* do not wrap, so a wrapped sum or product is computed on 16-bit halves.  *)

Two16 == 256 * 256
Two15 == 128 * 256
IntMax == (Two15 - 1) * Two16 + (Two16 - 1)
IntMin == (-Two15) * Two16

\* The two halves <<hi, lo>> of the 32-bit pattern of the int x.
Halves(x) ==
    IF x >= 0 THEN <<x \div Two16, x % Two16>>
    ELSE LET y == (x + IntMax) + 1
         IN  <<(y \div Two16) + Two15, y % Two16>>

\* The int whose 32-bit pattern has the halves h.
FromHalves(h) ==
    IF h[1] < Two15 THEN h[1] * Two16 + h[2]
    ELSE (h[1] - Two16) * Two16 + h[2]

\* The pattern of -x from the pattern h of x.
NegHalves(h) ==
    IF h[2] = 0 THEN <<(Two16 - h[1]) % Two16, 0>>
    ELSE <<Two16 - h[1] - 1, Two16 - h[2]>>

\* x + y on int, wrapping.
AddWrap(x, y) ==
    LET a == Halves(x)
        b == Halves(y)
        lo == a[2] + b[2]
        hi == a[1] + b[1] + (lo \div Two16)
    IN  FromHalves(<<hi % Two16, lo % Two16>>)

\* x * k on int, wrapping, for a multiplier of small magnitude (|k| < 2^15).
MulWrap(x, k) ==
    LET a == Halves(x)
        n == IF k < 0 THEN -k ELSE k
        lo == a[2] * n
        hi == a[1] * n + (lo \div Two16)
        r == <<hi % Two16, lo % Two16>>
    IN  FromHalves(IF k < 0 THEN NegHalves(r) ELSE r)

\* a % b of C++ for b > 0: the remainder has the sign of a.
Rem(a, b) ==
    IF a >= 0 THEN a % b
    ELSE LET r == a % b IN IF r = 0 THEN 0 ELSE r - b

-----------------------------------------------------------------------------
(* Keys are strings: sequences of character codes.                         *)

CharOf == [c \in {"a", "b", "c", "d", "e", "f", "i", "k", "l", "m", "n", "o",
                   "p", "r", "t", "v", "x", "y", "z"} |->
            CASE c = "a" -> 97 [] c = "b" -> 98 [] c = "c" -> 99
              [] c = "d" -> 100 [] c = "e" -> 101 [] c = "f" -> 102
              [] c = "i" -> 105 [] c = "k" -> 107 [] c = "l" -> 108
              [] c = "m" -> 109 [] c = "n" -> 110 [] c = "o" -> 111
              [] c = "p" -> 112 [] c = "r" -> 114 [] c = "t" -> 116
              [] c = "v" -> 118 [] c = "x" -> 120 [] c = "y" -> 121
              [] c = "z" -> 122]

\* The key spelled by a sequence of one-letter strings.
Key(letters) == [n \in 1..Len(letters) |-> CharOf[letters[n]]]

-----------------------------------------------------------------------------
(* createHashCode                                                          *)

p == 53
m == 1000000009
LetterA == 97

\* One pass of the loop body for the character c: the new hashcode and power.
HashStep(c, h, pw) ==
    [hashcode |-> Rem(AddWrap(h, MulWrap(pw, c - LetterA + 1)), m),
     power    |-> Rem(MulWrap(pw, p), m)]

RECURSIVE HashLoop(_, _, _, _)
HashLoop(key, n, h, pw) ==
    IF n > Len(key) THEN h
    ELSE LET s == HashStep(key[n], h, pw)
         IN  HashLoop(key, n + 1, s.hashcode, s.power)

\* The keys a caller of the filter may pass: "", "ab", "aaaact", "aaaabr".
Keys ==
    {Key(<<>>), Key(<<"a", "b">>), Key(<<"a", "a", "a", "a", "c", "t">>),
     Key(<<"a", "a", "a", "a", "b", "r">>)}

\* The keys of the driver: its four lowercased input strings, and "loner".
MainInputs ==
    {Key(<<"p", "a", "t", "r", "i", "c", "k">>), Key(<<"c", "o", "d", "y">>),
     Key(<<"v", "a", "n", "d", "y">>), Key(<<"a", "l", "e", "x">>)}
Loner == Key(<<"l", "o", "n", "e", "r">>)

\* The loop's result for each of these keys, computed once.
Hashed == [key \in Keys \cup MainInputs \cup {Loner} |-> HashLoop(key, 1, 0, 1)]

\* A variant of createHashCode whose hashcode starts from a member of the
\* object instead of from 0.
createHashCode_Member(this, key) == HashLoop(key, 1, this.tableSize, 1)

\* createHashCode(key) called on the object this.
createHashCode(this, key) ==
    IF key \in DOMAIN Hashed THEN Hashed[key] ELSE HashLoop(key, 1, 0, 1)

-----------------------------------------------------------------------------
(* The BloomFilter object.  C++ arrays are functions on 0..n-1.            *)

MaxTables == 2
MaxGap == 1

PtrBytes == 8
IntBytes == 4

NoFilter == [tables |-> <<>>, sizes |-> <<>>, tableSize |-> 0, bent |-> <<>>]

\* new bool[n] throws (std::bad_array_new_length) for a negative n.
NewThrows(sizesArg, tableCount) ==
    \E i \in 0..(tableCount - 1) : sizesArg[i] < 0

(* A variant of the constructor whose initialising loop stops one element  *)
(* early (j < tableSizes[i] - 1): the last element of each array keeps     *)
(* what new bool[] left there.                                             *)
BloomFilter_SkipLast(sizesArg, tableCount) ==
    [tables    |-> [i \in 0..(tableCount - 1) |->
                      [j \in 0..(sizesArg[i] - 1) |-> j = sizesArg[i] - 1]],
     sizes     |-> [i \in 0..(tableCount - 1) |-> sizesArg[i]],
     tableSize |-> tableCount,
     bent      |-> [i \in 0..(tableCount - 1) |-> {}]]

(* The object the constructor builds when no allocation throws.  tables[i] *)
(* is the array the pointer tables[i] designates; bent[i] is the set of    *)
(* bytes of that pointer that have been overwritten since (none at first). *)
BloomFilter(sizesArg, tableCount) ==
    [tables    |-> [i \in 0..(tableCount - 1) |->
                      [j \in 0..(sizesArg[i] - 1) |-> FALSE]],
     sizes     |-> [i \in 0..(tableCount - 1) |-> sizesArg[i]],
     tableSize |-> tableCount,
     bent      |-> [i \in 0..(tableCount - 1) |-> {}]]

getTables(this) == this.tables
getTableSize(this) == this.tableSize

\* value % sizes[i], the index add writes and contains reads.
Index(value, size) == Rem(value, size)

\* Whether j is an element of the array tables[i] as allocated.
InBounds(this, i, j) == j \in DOMAIN this.tables[i]

(* Memory in a raw build.  The constructor's allocations lie in allocation *)
(* order, g bytes apart: the pointer array tables (PtrBytes an element),   *)
(* the int array sizes (IntBytes an element), both low byte first, then    *)
(* the array of tables[0] at address 0, that of tables[1], ...  An access  *)
(* tables[i][j] out of bounds lands on the byte at Base(i) + j: an element *)
(* of another table, a byte of sizes, a byte of a pointer, a byte between  *)
(* the allocations, or ("wild") a byte beyond them, which may not be       *)
(* mapped at all.                                                          *)
Alloc(this, i) == Cardinality(DOMAIN this.tables[i])

RECURSIVE Base(_, _, _)
Base(this, g, i) ==
    IF i = 0 THEN 0 ELSE Base(this, g, i - 1) + Alloc(this, i - 1) + g

Owner(this, g, a) ==
    {t \in 0..(this.tableSize - 1) :
        Base(this, g, t) <= a /\ a < Base(this, g, t) + Alloc(this, t)}

SizesAt(this, g) == (-g) - IntBytes * this.tableSize
TablesAt(this, g) == SizesAt(this, g) - g - PtrBytes * this.tableSize
HeapEnd(this, g) == Base(this, g, this.tableSize)

(* A pointer with an overwritten byte designates other memory: memory      *)
(* close by when only its two low bytes changed, and nothing mapped        *)
(* ("far") when a higher byte did.                                         *)
Far(bytes) == bytes \ {0, 1} # {}

(* Where the access tables[i][j] lands.  addr names the byte: <<0, a>> is  *)
(* address a of the layout, <<1 + i, j>> is byte j of the memory that the  *)
(* overwritten pointer tables[i] designates.                               *)
Locate(this, g, i, j) ==
    LET a == Base(this, g, i) + j
        s == a - SizesAt(this, g)
        q == a - TablesAt(this, g)
    IN  IF Far(this.bent[i])
        THEN [kind |-> "dead", t |-> i, j |-> j, addr |-> <<1 + i, j>>]
        ELSE IF this.bent[i] # {}
        THEN [kind |-> IF InBounds(this, i, j) THEN "cell" ELSE "between",
              t |-> i, j |-> j, addr |-> <<1 + i, j>>]
        ELSE IF InBounds(this, i, j)
        THEN [kind |-> "cell", t |-> i, j |-> j, addr |-> <<0, a>>]
        ELSE IF Owner(this, g, a) # {}
        THEN LET o == CHOOSE x \in Owner(this, g, a) : TRUE
             IN  [kind |-> IF this.bent[o] = {} THEN "cell" ELSE "between",
                  t |-> o, j |-> a - Base(this, g, o), addr |-> <<0, a>>]
        ELSE IF 0 <= s /\ s < IntBytes * this.tableSize
        THEN [kind |-> "size", t |-> s \div IntBytes, j |-> s % IntBytes,
              addr |-> <<0, a>>]
        ELSE IF 0 <= q /\ q < PtrBytes * this.tableSize
        THEN [kind |-> "ptr", t |-> q \div PtrBytes, j |-> q % PtrBytes,
              addr |-> <<0, a>>]
        ELSE IF TablesAt(this, g) <= a /\ a < HeapEnd(this, g)
        THEN [kind |-> "between", t |-> i, j |-> j, addr |-> <<0, a>>]
        ELSE [kind |-> "wild", t |-> i, j |-> j, addr |-> <<0, a>>]

Pow256(b) == CASE b = 0 -> 1 [] b = 1 -> 256 [] b = 2 -> 65536 [] b = 3 -> 16777216

\* Byte b of the non-negative int v, and v with its byte b set to 1 (true).
ByteOf(v, b) == (v \div Pow256(b)) % 256
SetByte(v, b) ==
    (IF b = 3 THEN 0 ELSE (v \div Pow256(b + 1)) * Pow256(b + 1))
        + Pow256(b) + (v % Pow256(b))

\* A variant of SetBit that stores false instead of true.
SetBit_Clear(tables, i, j) == [tables EXCEPT ![i][j] = FALSE]

\* tables[i][j] = true on an element of the filter's tables.
SetBit(tables, i, j) == [tables EXCEPT ![i][j] = TRUE]

(* What a byte that the program has not written holds, when it is mapped:  *)
(* mm is "zero" or "one" (all bytes are mapped and hold that value) or     *)
(* "fault" (a wild byte is not mapped; the others hold 1).                 *)
Junk(mm) == mm # "zero"

(* The write of true over byte b of the pointer tables[t]: from then on    *)
(* tables[t] designates other memory, with whatever that memory holds.     *)
Bend(st, mm, t, b) ==
    IF b \in st.bent[t] THEN st
    ELSE [st EXCEPT
            !.bent[t] = @ \cup {b},
            !.tables[t] = IF Far(st.bent[t] \cup {b}) THEN @
                          ELSE [j \in DOMAIN @ |-> Junk(mm)],
            !.scribbled = {x \in @ : x[1] # 1 + t}]

(* The write tables[i][j] = true in the progress st of an add call.        *)
Write(this, bld, g, mm, i, j, st) ==
    LET cur == [this EXCEPT !.tables = st.tables, !.sizes = st.sizes,
                            !.bent = st.bent]
        loc == Locate(cur, g, i, j)
        used == [st EXCEPT !.idx = Append(st.idx, j)]
    IN  IF loc.kind = "cell" /\ (InBounds(this, i, j) \/ bld = "raw")
        THEN [used EXCEPT !.tables = SetBit(st.tables, loc.t, loc.j)]
        ELSE IF bld = "checked" \/ loc.kind = "dead"
        THEN [used EXCEPT !.status = "aborted"]
        ELSE IF loc.kind = "size"
        THEN [used EXCEPT !.sizes[loc.t] = SetByte(st.sizes[loc.t], loc.j)]
        ELSE IF loc.kind = "ptr"
        THEN Bend(used, mm, loc.t, loc.j)
        ELSE IF loc.kind = "wild" /\ mm = "fault"
        THEN [used EXCEPT !.status = "aborted"]
        ELSE [used EXCEPT !.scribbled = st.scribbled \cup {loc.addr}]

(* add: the loop from slot i on.  st is the progress so far: the tables,   *)
(* sizes and pointers, the outside bytes written, the indexes used, and    *)
(* whether the call is still running ("ready") or the process has died     *)
(* ("aborted").                                                            *)
RECURSIVE AddLoop(_, _, _, _, _, _, _)
AddLoop(this, bld, g, mm, value, i, st) ==
    IF i >= this.tableSize \/ st.status # "ready" THEN st
    ELSE IF st.sizes[i] = 0
    THEN [st EXCEPT !.status = "aborted"]    \* value % 0: the division traps
    ELSE AddLoop(this, bld, g, mm, value, i + 1,
                 Write(this, bld, g, mm, i, Index(value, st.sizes[i]), st))

add(this, scr, bld, g, mm, key) ==
    LET value == createHashCode(this, key)
    IN  AddLoop(this, bld, g, mm, value, 0,
                [tables |-> this.tables, sizes |-> this.sizes,
                 bent |-> this.bent, scribbled |-> scr, idx |-> <<>>,
                 status |-> "ready", value |-> value])

(* The read of tables[i][j] in a contains call: "true", "false", or        *)
(* "abort" when the process dies on it.                                    *)
Read(this, scr, bld, g, mm, i, j) ==
    LET loc == Locate(this, g, i, j)
        bit(v) == IF v THEN "true" ELSE "false"
    IN  IF loc.kind = "cell" /\ (InBounds(this, i, j) \/ bld = "raw")
        THEN bit(this.tables[loc.t][loc.j])
        ELSE IF bld = "checked" \/ loc.kind = "dead" THEN "abort"
        ELSE IF loc.kind = "size" THEN bit(ByteOf(this.sizes[loc.t], loc.j) # 0)
        ELSE IF loc.kind = "ptr" THEN bit(loc.j \in this.bent[loc.t] \/ Junk(mm))
        ELSE IF loc.kind = "wild" /\ mm = "fault" THEN "abort"
        ELSE IF loc.addr \in scr THEN "true"
        ELSE bit(Junk(mm))

(* contains: the loop from slot i on.  st is the progress so far; the      *)
(* tables are part of it although the loop only reads them.                *)
RECURSIVE ContainsLoop(_, _, _, _, _, _, _, _)
ContainsLoop(this, scr, bld, g, mm, value, i, st) ==
    IF i >= this.tableSize
    THEN [st EXCEPT !.result = TRUE]
    ELSE IF this.sizes[i] = 0
    THEN [st EXCEPT !.status = "aborted"]
    ELSE
      LET j == Index(value, this.sizes[i])
          b == Read(this, scr, bld, g, mm, i, j)
          used == [st EXCEPT !.idx = Append(st.idx, j)]
      IN  IF b = "abort" THEN [used EXCEPT !.status = "aborted"]
          ELSE IF b = "false" THEN used
          ELSE ContainsLoop(this, scr, bld, g, mm, value, i + 1, used)

\* A variant of contains whose test assigns (tables[i][j] = false) instead
\* of comparing: it clears each position it visits and never returns false.
contains_Assign(this, scr, bld, g, mm, key) ==
    LET value == createHashCode(this, key)
    IN  [tables |-> [i \in DOMAIN this.tables |->
                       [j \in DOMAIN this.tables[i] |->
                          IF this.sizes[i] > 0 /\ j = Index(value, this.sizes[i])
                          THEN FALSE ELSE this.tables[i][j]]],
         status |-> "ready", result |-> TRUE, idx |-> <<>>, value |-> value]

\* A variant of contains that returns true as soon as the position of the
\* first slot is true (return true inside the loop).
contains_FirstOnly(this, scr, bld, g, mm, key) ==
    LET value == createHashCode(this, key)
        st == [tables |-> this.tables, status |-> "ready", result |-> FALSE,
               idx |-> <<>>, value |-> value]
    IN  IF this.tableSize = 0 THEN [st EXCEPT !.result = TRUE]
        ELSE IF this.sizes[0] = 0 THEN [st EXCEPT !.status = "aborted"]
        ELSE LET j == Index(value, this.sizes[0])
                 b == Read(this, scr, bld, g, mm, 0, j)
                 used == [st EXCEPT !.idx = <<j>>]
             IN  IF b = "abort" THEN [used EXCEPT !.status = "aborted"]
                 ELSE [used EXCEPT !.result = (b = "true")]

contains(this, scr, bld, g, mm, key) ==
    LET value == createHashCode(this, key)
    IN  ContainsLoop(this, scr, bld, g, mm, value, 0,
                     [tables |-> this.tables, status |-> "ready",
                      result |-> FALSE, idx |-> <<>>, value |-> value])

-----------------------------------------------------------------------------
(* The filter as a state machine: one constructor call, then add and       *)
(* contains calls in any order.                                            *)

\* The capacity arrays a caller may pass: up to MaxTables capacities, each
\* one of Caps.
Caps == {-1, 0, 1, 2, 13}
CapArrays ==
    UNION {[0..(n - 1) -> Caps] : n \in 0..MaxTables}

NoCall ==
    [op |-> "none", key |-> <<>>, value |-> 0, idx |-> <<>>,
     returned |-> FALSE, result |-> FALSE, again |-> FALSE]

HashIdle == hkey = <<>> /\ pos = 0 /\ hashcode = 0 /\ power = 1
NoInst == [this |-> NoFilter, scribbled |-> {}, made |-> FALSE]
PairIdle == inst = <<NoInst, NoInst>> /\ ret = <<{}, {}>>

\* No calls side by side: the add (a...) and the contains (c...) are not begun.
NoRace ==
    [key |-> <<>>, apc |-> "none", avalue |-> 0, ai |-> 0,
     cpc |-> "none", cvalue |-> 0, ci |-> 0, cresult |-> FALSE, reads |-> <<>>]
RaceIdle == race = NoRace

Builds ==
    {[build |-> "checked", gap |-> 0, mem |-> "fault"]} \cup
    {[build |-> "raw", gap |-> g, mem |-> mm] :
        g \in 0..MaxGap, mm \in {"fault", "zero", "one"}}

InitWith(arrays) ==
    /\ \E b \in Builds : build = b.build /\ gap = b.gap /\ mem = b.mem
    /\ tableSizes \in arrays
    /\ status = "start"
    /\ filter = NoFilter
    /\ scribbled = {}
    /\ call = NoCall
    /\ added = {}
    /\ HashIdle
    /\ PairIdle
    /\ RaceIdle

Init == InitWith(CapArrays)

\* BloomFilter filter = BloomFilter(tableSizes, tableCount);
Construct ==
    /\ status = "start"
    /\ LET tableCount == Cardinality(DOMAIN tableSizes)
       IN  IF NewThrows(tableSizes, tableCount)
           THEN status' = "threw" /\ filter' = filter
           ELSE status' = "ready" /\ filter' = BloomFilter(tableSizes, tableCount)
    /\ call' = [NoCall EXCEPT !.op = "new"]
    /\ UNCHANGED <<build, gap, mem, tableSizes, scribbled, added,
                   hashVars, pairVars, raceVars>>

\* filter.add(key);
Add(key) ==
    /\ status = "ready"
    /\ \E r \in {add(filter, scribbled, build, gap, mem, key)} :
           /\ filter' = [filter EXCEPT !.tables = r.tables, !.sizes = r.sizes,
                                     !.bent = r.bent]
           /\ scribbled' = r.scribbled
           /\ status' = r.status
           /\ call' = [op |-> "add", key |-> key, value |-> r.value,
                       idx |-> r.idx, returned |-> r.status = "ready",
                       result |-> FALSE, again |-> key \in added]
           /\ added' = IF r.status = "ready" THEN added \cup {key} ELSE added
    /\ UNCHANGED <<build, gap, mem, tableSizes, hashVars, pairVars, raceVars>>

\* filter.contains(key)
Contains(key) ==
    /\ status = "ready"
    /\ \E r \in {contains(filter, scribbled, build, gap, mem, key)} :
           /\ filter' = [filter EXCEPT !.tables = r.tables]
           /\ status' = r.status
           /\ call' = [op |-> "contains", key |-> key, value |-> r.value,
                       idx |-> r.idx, returned |-> r.status = "ready",
                       result |-> r.result, again |-> key \in added]
    /\ UNCHANGED <<build, gap, mem, tableSizes, scribbled, added,
                   hashVars, pairVars, raceVars>>

\* filter.getTables(): returns the pointer tables; nothing changes.
GetTables ==
    /\ status = "ready"
    /\ call' = [NoCall EXCEPT !.op = "getTables", !.returned = TRUE]
    /\ UNCHANGED <<build, gap, mem, tableSizes, status, filter, scribbled,
                   added, hashVars, pairVars, raceVars>>

\* filter.getTableSize(): returns tableSize; nothing changes.
GetTableSize ==
    /\ status = "ready"
    /\ call' = [NoCall EXCEPT !.op = "getTableSize", !.returned = TRUE,
                              !.value = getTableSize(filter)]
    /\ UNCHANGED <<build, gap, mem, tableSizes, status, filter, scribbled,
                   added, hashVars, pairVars, raceVars>>

Next ==
    \/ Construct
    \/ \E key \in Keys : Add(key)
    \/ \E key \in Keys : Contains(key)
    \/ GetTables
    \/ GetTableSize

Spec == Init /\ [][Next]_vars

-----------------------------------------------------------------------------
(* The driver's scenario: the filter of main() with its eight capacities;  *)
(* the four lowercased input strings are added in order, and contains is   *)
(* asked about them and about "loner".                                     *)

MainSizes == [i \in 0..7 |-> <<11, 13, 17, 19, 23, 29, 31, 37>>[i + 1]]

MainOrder ==
    <<Key(<<"p", "a", "t", "r", "i", "c", "k">>), Key(<<"c", "o", "d", "y">>),
      Key(<<"v", "a", "n", "d", "y">>), Key(<<"a", "l", "e", "x">>)>>

MainInit == InitWith({MainSizes})

\* for (std::string s : inputStrings) filter.add(s);
MainAdd ==
    /\ Cardinality(added) < Len(MainOrder)
    /\ Add(MainOrder[Cardinality(added) + 1])

\* filter.contains(s), filter.contains(excludedString)
MainContains == \E key \in MainInputs \cup {Loner} : Contains(key)

MainNext == Construct \/ MainAdd \/ MainContains

MainSpec == MainInit /\ [][MainNext]_vars

\* C6: in the scenario no call dies, and once the four keys are added
\* contains returns true for each of them and false for "loner".
C6_Scenario ==
    /\ status # "aborted"
    /\ (added = MainInputs /\ call.op = "contains")
          => (call.returned /\ call.result = (call.key \in MainInputs))

-----------------------------------------------------------------------------
(* createHashCode in steps: one character of the key a step.               *)

MaxKeyLen == 8

\* The keys hashed: every string of "a", "f" and "z" up to MaxKeyLen long.
HashKeys ==
    UNION {[1..n -> {CharOf["a"], CharOf["f"], CharOf["z"]}] : n \in 0..MaxKeyLen}

FilterIdle ==
    /\ build = "checked" /\ gap = 0 /\ mem = "fault"
    /\ tableSizes = <<>>
    /\ status = "start"
    /\ filter = NoFilter
    /\ scribbled = {}
    /\ call = NoCall
    /\ added = {}

HashInit ==
    /\ hkey \in HashKeys
    /\ pos = 0
    /\ hashcode = 0
    /\ power = 1
    /\ FilterIdle
    /\ PairIdle
    /\ RaceIdle

\* for (char c : key) { ... }: the body, for the next character.
HashChar ==
    /\ pos < Len(hkey)
    /\ \E s \in {HashStep(hkey[pos + 1], hashcode, power)} :
           hashcode' = s.hashcode /\ power' = s.power
    /\ pos' = pos + 1
    /\ UNCHANGED <<hkey, filterVars, pairVars, raceVars>>

HashNext == HashChar

HashSpec == HashInit /\ [][HashNext]_vars

\* The loop is over: createHashCode returns hashcode.
HashDone == pos = Len(hkey)

(* The reference polynomial rolling hash, in exact arithmetic: every       *)
(* intermediate value stays below 2 * m.                                   *)
RECURSIVE MulMod(_, _)
MulMod(x, k) ==
    IF k = 0 THEN 0
    ELSE LET h == MulMod(x, k \div 2)
             d == (h + h) % m
         IN  IF k % 2 = 1 THEN (d + x) % m ELSE d

RECURSIVE RefLoop(_, _, _, _)
RefLoop(key, n, H, P) ==
    IF n > Len(key) THEN H
    ELSE RefLoop(key, n + 1,
                 (H + MulMod(P, key[n] - LetterA + 1)) % m, MulMod(P, p))

RefHash(key) == RefLoop(key, 1, 0, 1)

\* C4: for a key over 'a'..'z', createHashCode returns the reference hash
\* H (H0 = 0, P0 = 1, H = (H + v * P) mod m, P = (P * p) mod m), which lies
\* in [0, m).
C4_ReferenceHash ==
    HashDone => (hashcode = RefHash(hkey) /\ 0 <= hashcode /\ hashcode < m)

-----------------------------------------------------------------------------
(* Two filter objects in one process, each with its own capacities and its *)
(* own calls; ret[n] collects the <<key, hash code>> pairs createHashCode  *)
(* returned on object n.                                                   *)

Arr(seq) == [i \in 0..(Len(seq) - 1) |-> seq[i + 1]]
PairArrays == {Arr(<<2>>), Arr(<<13>>), Arr(<<2, 13>>)}
PairKeys == {Key(<<"a", "b">>), Key(<<"a", "a", "a", "a", "b", "r">>)}

PairInit ==
    /\ \E b \in Builds : build = b.build /\ gap = b.gap /\ mem = b.mem
    /\ tableSizes = <<>>
    /\ status = "ready"
    /\ filter = NoFilter
    /\ scribbled = {}
    /\ call = NoCall
    /\ added = {}
    /\ HashIdle
    /\ PairIdle
    /\ RaceIdle

PairFrame == UNCHANGED <<build, gap, mem, tableSizes, filter, scribbled, call,
                         added, hashVars, raceVars>>

\* BloomFilter f = BloomFilter(sizesArg, tableCount);
PairNew(n, sizesArg) ==
    /\ status = "ready"
    /\ ~inst[n].made
    /\ inst' = [inst EXCEPT ![n] =
                  [this |-> BloomFilter(sizesArg, Cardinality(DOMAIN sizesArg)),
                   scribbled |-> {}, made |-> TRUE]]
    /\ UNCHANGED <<status, ret>>
    /\ PairFrame

\* f.add(key);
PairAdd(n, key) ==
    /\ status = "ready"
    /\ inst[n].made
    /\ \E r \in {add(inst[n].this, inst[n].scribbled, build, gap, mem, key)} :
           /\ inst' = [inst EXCEPT ![n].this.tables = r.tables,
                                   ![n].this.sizes = r.sizes,
                                   ![n].this.bent = r.bent,
                                   ![n].scribbled = r.scribbled]
           /\ status' = r.status
    /\ UNCHANGED ret
    /\ PairFrame

\* f.contains(key)
PairContains(n, key) ==
    /\ status = "ready"
    /\ inst[n].made
    /\ \E r \in {contains(inst[n].this, inst[n].scribbled, build, gap, mem, key)} :
           /\ inst' = [inst EXCEPT ![n].this.tables = r.tables]
           /\ status' = r.status
    /\ UNCHANGED ret
    /\ PairFrame

\* f.createHashCode(key)
PairHash(n, key) ==
    /\ status = "ready"
    /\ inst[n].made
    /\ ret' = [ret EXCEPT ![n] = @ \cup {<<key, createHashCode(inst[n].this, key)>>}]
    /\ UNCHANGED <<status, inst>>
    /\ PairFrame

PairNext ==
    \E n \in {1, 2} :
        \/ \E sizesArg \in PairArrays : PairNew(n, sizesArg)
        \/ \E key \in PairKeys :
              PairAdd(n, key) \/ PairContains(n, key) \/ PairHash(n, key)

PairSpec == PairInit /\ [][PairNext]_vars

\* C10: the hash code of a key is the same whichever object createHashCode
\* is called on and whatever calls that object has seen before.
C10_HashDeterministic ==
    \A n1 \in {1, 2}, n2 \in {1, 2} :
        \A x \in ret[n1], y \in ret[n2] : x[1] = y[1] => x[2] = y[2]

\* C10's case: two objects with different capacities and different table
\* contents have both hashed the same key.
C10_Witness ==
    /\ inst[1].made /\ inst[2].made
    /\ inst[1].this.sizes # inst[2].this.sizes
    /\ inst[1].this.tables # inst[2].this.tables
    /\ \E i \in DOMAIN inst[1].this.tables :
          TRUE \in {inst[1].this.tables[i][j] : j \in DOMAIN inst[1].this.tables[i]}
    /\ \E x \in ret[1], y \in ret[2] : x[1] = y[1]

-----------------------------------------------------------------------------
(* add(key) and contains(key) called on one filter by two threads, with no *)
(* lock: each call computes the hash code and then runs its loop one slot  *)
(* a step, and the steps of the two calls interleave in any order.         *)
(* race.ai is the add's loop variable (the number of slots it has          *)
(* written), race.ci the contains's; race.reads lists what contains read   *)
(* and how many slots the add had written by then.                         *)

RaceArrays == UNION {[0..(n - 1) -> {2, 13}] : n \in 1..MaxTables}
RaceKeys == {Key(<<>>), Key(<<"a", "b">>)}

RaceInit ==
    /\ \E b \in Builds : build = b.build /\ gap = b.gap /\ mem = b.mem
    /\ tableSizes \in RaceArrays
    /\ status = "ready"
    /\ filter = BloomFilter(tableSizes, Cardinality(DOMAIN tableSizes))
    /\ scribbled = {}
    /\ call = NoCall
    /\ added = {}
    /\ HashIdle
    /\ PairIdle
    /\ \E key \in RaceKeys :
          race = [NoRace EXCEPT !.key = key, !.apc = "call", !.cpc = "call"]

RaceFrame == UNCHANGED <<build, gap, mem, tableSizes, call, hashVars, pairVars>>

\* add: int value = createHashCode(key);
RaceAddCall ==
    /\ status = "ready"
    /\ race.apc = "call"
    /\ race' = [race EXCEPT !.apc = "loop", !.ai = 0,
                            !.avalue = createHashCode(filter, race.key)]
    /\ UNCHANGED <<status, filter, scribbled, added>>
    /\ RaceFrame

\* add: tables[i][value % sizes[i]] = true; i++
RaceAddSlot ==
    /\ status = "ready"
    /\ race.apc = "loop"
    /\ race.ai < filter.tableSize
    /\ \E r \in {Write(filter, build, gap, mem, race.ai,
                       Index(race.avalue, filter.sizes[race.ai]),
                       [tables |-> filter.tables, sizes |-> filter.sizes,
                        bent |-> filter.bent, scribbled |-> scribbled,
                        idx |-> <<>>, status |-> "ready",
                        value |-> race.avalue])} :
           /\ filter' = [filter EXCEPT !.tables = r.tables, !.sizes = r.sizes,
                                       !.bent = r.bent]
           /\ scribbled' = r.scribbled
           /\ status' = r.status
    /\ race' = [race EXCEPT !.ai = @ + 1]
    /\ UNCHANGED added
    /\ RaceFrame

\* add: the loop test fails (i == tableSize) and the call returns.
RaceAddReturn ==
    /\ status = "ready"
    /\ race.apc = "loop"
    /\ race.ai >= filter.tableSize
    /\ race' = [race EXCEPT !.apc = "done"]
    /\ added' = added \cup {race.key}
    /\ UNCHANGED <<status, filter, scribbled>>
    /\ RaceFrame

\* contains: int value = createHashCode(key);
RaceContainsCall ==
    /\ status = "ready"
    /\ race.cpc = "call"
    /\ race' = [race EXCEPT !.cpc = "loop", !.ci = 0,
                            !.cvalue = createHashCode(filter, race.key)]
    /\ UNCHANGED <<status, filter, scribbled, added>>
    /\ RaceFrame

\* contains: if (tables[i][value % sizes[i]] == false) return false; i++
RaceContainsSlot ==
    /\ status = "ready"
    /\ race.cpc = "loop"
    /\ race.ci < filter.tableSize
    /\ \E b \in {Read(filter, scribbled, build, gap, mem, race.ci,
                      Index(race.cvalue, filter.sizes[race.ci]))} :
           /\ status' = IF b = "abort" THEN "aborted" ELSE status
           /\ race' = [race EXCEPT
                         !.reads = Append(@, [bit |-> b, written |-> race.ai]),
                         !.ci = IF b = "true" THEN @ + 1 ELSE @,
                         !.cpc = IF b = "false" THEN "done" ELSE @,
                         !.cresult = FALSE]
    /\ UNCHANGED <<filter, scribbled, added>>
    /\ RaceFrame

\* contains: the loop test fails and the call returns true.
RaceContainsReturn ==
    /\ status = "ready"
    /\ race.cpc = "loop"
    /\ race.ci >= filter.tableSize
    /\ race' = [race EXCEPT !.cpc = "done", !.cresult = TRUE]
    /\ UNCHANGED <<status, filter, scribbled, added>>
    /\ RaceFrame

RaceNext ==
    \/ RaceAddCall
    \/ RaceAddSlot
    \/ RaceAddReturn
    \/ RaceContainsCall
    \/ RaceContainsSlot
    \/ RaceContainsReturn

RaceSpec == RaceInit /\ [][RaceNext]_vars

(* C16: when add(k) and contains(k) interleave slot by slot, contains can  *)
(* return false for the key being inserted, and it does so only on reading *)
(* a position the add has not yet written: the read that made it return    *)
(* false, in slot s, happened when the add had written at most the slots   *)
(* before s.  (C16_Witness is the interleaving itself: contains read a     *)
(* position the add had written as true, then an unwritten one as false.)  *)
C16_TornRead ==
    /\ (race.cpc = "done" /\ ~race.cresult)
          => LET s == Len(race.reads)
             IN  /\ s >= 1
                 /\ race.reads[s].bit = "false"
                 /\ race.reads[s].written <= s - 1
    /\ (race.cpc = "done" /\ race.cresult)
          => /\ Len(race.reads) = filter.tableSize
             /\ \A n \in DOMAIN race.reads : race.reads[n].bit = "true"

\* C16's case: on a filter of at least two slots contains has read the
\* position the add wrote in slot 0 as true, then a position not yet written
\* as false, and has returned false while the add is still in its loop.
C16_Witness ==
    /\ filter.tableSize >= 2
    /\ race.cpc = "done" /\ ~race.cresult
    /\ race.apc = "loop" /\ race.ai < filter.tableSize
    /\ Len(race.reads) >= 2
    /\ race.reads[1].bit = "true" /\ race.reads[1].written >= 1
    /\ race.reads[Len(race.reads)].bit = "false"

-----------------------------------------------------------------------------
(* The filter with short keys, whose hash codes are small and positive:    *)
(* "a" (1), "c" (3) and "d" (4), on slots of capacity 2 and 3.             *)

FpArrays == UNION {[0..(n - 1) -> {2, 3}] : n \in 1..MaxTables}
FpKeys == {Key(<<"a">>), Key(<<"c">>), Key(<<"d">>)}

FpInit == InitWith(FpArrays)

FpNext ==
    \/ Construct
    \/ \E key \in FpKeys : Add(key)
    \/ \E key \in FpKeys : Contains(key)

FpSpec == FpInit /\ [][FpNext]_vars

\* The position of slot i that the key k maps to.
Position(k, i) == Index(createHashCode(filter, k), tableSizes[i])

(* C17: contains(k) can return true for a key k that was never added; when *)
(* contains(k) returns true, each position hash(k) mod c_i is one that     *)
(* some added key maps to, whether or not k itself was added.              *)
C17_TrueMeansCovered ==
    (call.op = "contains" /\ call.returned /\ call.result)
        => \A i \in DOMAIN tableSizes :
              \E k \in added : Position(k, i) = Position(call.key, i)

\* C17's case: contains(k) has returned true for a key k that was not added,
\* on two slots, and no single added key maps to all of k's positions: the
\* added keys set them together.
C17_Witness ==
    /\ call.op = "contains" /\ call.returned /\ call.result
    /\ call.key \notin added
    /\ filter.tableSize = 2
    /\ \A k \in added :
          \E i \in DOMAIN tableSizes : Position(k, i) # Position(call.key, i)

-----------------------------------------------------------------------------
(* Properties of the filter.                                               *)

\* The configuration the specification asks for: at least one capacity, all
\* of them positive.
GoodConfig ==
    /\ DOMAIN tableSizes # {}
    /\ \A i \in DOMAIN tableSizes : tableSizes[i] > 0

IsCall(c, op) == c.op = op /\ c.returned

\* C1: on a filter built from a non-empty sequence of positive capacities, a
\* contains(k) made after an add(k) has returned completes and returns true.
C1_NoFalseNegatives ==
    (GoodConfig /\ call.op = "contains" /\ call.again)
        => (call.returned /\ call.result)

\* C2: on a filter built from positive capacities, every index add writes
\* and contains reads lies in [0, capacity of its slot), and the call
\* completes.
C2_IndexInBounds ==
    (GoodConfig /\ call.op \in {"add", "contains"})
        => /\ call.returned
           /\ \A n \in DOMAIN call.idx :
                 0 <= call.idx[n] /\ call.idx[n] < tableSizes[n - 1]

\* C3: constructing a filter from an empty capacity sequence, or from one
\* with a capacity <= 0, ends in an error and leaves no usable filter.
C3_ConstructionRejects ==
    (status # "start" /\ ~GoodConfig) => status = "threw"

\* C5: a contains(k) call completes, and returns true exactly when position
\* hash(k) % c_i of every slot i is true.
C5_ContainsIffAllSet ==
    (GoodConfig /\ call.op = "contains")
        => /\ call.returned
           /\ call.result <=>
                \A i \in DOMAIN tableSizes :
                    LET j == Index(call.value, tableSizes[i])
                    IN  InBounds(filter, i, j) /\ filter.tables[i][j]

\* C7: add(k) straight after a completed add(k) leaves every slot as it was.
C7_AddIdempotent ==
    [][(IsCall(call, "add") /\ IsCall(call', "add") /\ call'.key = call.key)
          => filter'.tables = filter.tables]_vars

\* C8: no position of a slot goes from true to false in a step, so the
\* number of true positions in each slot never decreases.
TrueCount(tables, i) == Cardinality({j \in DOMAIN tables[i] : tables[i][j]})
C8_MonotonicFill ==
    [][\A i \in DOMAIN filter.tables :
          /\ \A j \in DOMAIN filter.tables[i] :
                filter.tables[i][j] => filter'.tables[i][j]
          /\ TrueCount(filter'.tables, i) >= TrueCount(filter.tables, i)]_vars

\* C9: a contains call changes no position of any slot, no capacity and not
\* the slot count; and contains(k) straight after contains(k) answers the same.
C9_ContainsReadOnly ==
    [][call'.op = "contains"
          => /\ filter' = filter
             /\ (IsCall(call, "contains") /\ call'.key = call.key)
                   => (call'.returned /\ call'.result = call.result)]_vars

\* C9's case: contains has returned false on a filter holding true positions.
C9_Witness ==
    /\ IsCall(call, "contains")
    /\ ~call.result
    /\ \E i \in DOMAIN filter.tables : TrueCount(filter.tables, i) >= 1

\* C11: straight after construction from n >= 1 positive capacities the
\* filter holds n slots, slot i has exactly c_i positions, and every position
\* of every slot is false.
C11_InitialState ==
    (GoodConfig /\ call.op = "new")
        => /\ status = "ready"
           /\ getTableSize(filter) = Cardinality(DOMAIN tableSizes)
           /\ DOMAIN getTables(filter) = DOMAIN tableSizes
           /\ \A i \in DOMAIN tableSizes :
                 /\ DOMAIN getTables(filter)[i] = 0..(tableSizes[i] - 1)
                 /\ \A j \in DOMAIN getTables(filter)[i] :
                       ~getTables(filter)[i][j]

\* C11's case: a filter of two slots of different capacities has just been
\* constructed.
C11_Witness ==
    /\ call.op = "new"
    /\ status = "ready"
    /\ GoodConfig
    /\ filter.tableSize = 2
    /\ Cardinality(DOMAIN filter.tables[0]) # Cardinality(DOMAIN filter.tables[1])

\* C12: after construction the slot count and every recorded capacity keep
\* their construction-time values, whatever calls are made on the filter.
C12_SlotConfigImmutable ==
    status = "ready"
        => /\ filter.tableSize = Cardinality(DOMAIN tableSizes)
           /\ \A i \in DOMAIN tableSizes : filter.sizes[i] = tableSizes[i]

\* C13: the hash of the empty string is 0, add("") sets position 0 of every
\* slot and a later contains("") returns true; and once any add has returned,
\* the single position of a capacity-1 slot is true and that slot is never the
\* one that makes contains return false.
C13_EmptyKey ==
    GoodConfig
        => /\ (call.op = "add" /\ call.key = <<>>)
                 => /\ call.returned
                    /\ call.value = 0
                    /\ \A i \in DOMAIN tableSizes : filter.tables[i][0]
           /\ (call.op = "contains" /\ call.key = <<>> /\ <<>> \in added)
                 => (call.returned /\ call.result)
           /\ (status = "ready" /\ added # {})
                 => \A i \in DOMAIN tableSizes :
                       tableSizes[i] = 1 => filter.tables[i][0]
           /\ (IsCall(call, "contains") /\ ~call.result /\ added # {})
                 => tableSizes[Len(call.idx) - 1] # 1

\* C14: an add(k) call completes and, in every slot i, sets position
\* hash(k) mod c_i to true and leaves every other position as it was.
C14_AddEffectFrame ==
    [][(GoodConfig /\ status = "ready" /\ call'.op = "add")
          => /\ call'.returned
             /\ Len(call'.idx) = Cardinality(DOMAIN tableSizes)
             /\ \A i \in DOMAIN tableSizes :
                   filter'.tables[i] =
                       [filter.tables[i] EXCEPT ![call'.value % tableSizes[i]] = TRUE]]_vars

\* C15: in every state reached by add and contains calls, position j of slot
\* i is true exactly when some key k of a completed add has
\* hash(k) mod c_i = j.
C15_UnionOfFingerprints ==
    (GoodConfig /\ status = "ready")
        => \A i \in DOMAIN tableSizes :
              \A j \in 0..(tableSizes[i] - 1) :
                  filter.tables[i][j] <=>
                      \E k \in added :
                          createHashCode(filter, k) % tableSizes[i] = j

\* filter.add(key) on the object and outside bytes of st, in this build.
AddTo(st, key) ==
    IF st.status # "ready" THEN st
    ELSE LET r == add(st.this, st.scribbled, build, gap, mem, key)
         IN  [this |-> [st.this EXCEPT !.tables = r.tables, !.sizes = r.sizes,
                                       !.bent = r.bent],
              scribbled |-> r.scribbled, status |-> r.status]

\* C18: from every reachable state of the filter, add(k1); add(k2) and
\* add(k2); add(k1) leave the same slot contents.
C18_AddCommutes ==
    (GoodConfig /\ status = "ready")
        => \A k1 \in Keys, k2 \in Keys :
              LET st == [this |-> filter, scribbled |-> scribbled,
                         status |-> status]
                  a == AddTo(AddTo(st, k1), k2)
                  b == AddTo(AddTo(st, k2), k1)
              IN  (a.status = "ready" /\ b.status = "ready")
                      => a.this.tables = b.this.tables

=============================================================================
